---- MODULE Spec2Model ----
(***************************************************************************)
(* Web_Site_Monitor: the two monitor loops of the repository.              *)
(*                                                                         *)
(*   URL_monitor.py      main(): the command-line loop (loop index 0)      *)
(*   URL_monitor_gui.py  Monitor_Gui (Start/Stop button) and the monitor   *)
(*                       threads it starts (loop indices 1..MaxThreads),   *)
(*                       all reading the one global keep_monitoring        *)
(*                                                                         *)
(* A behaviour is a run of one of the two programs (prog).  Time is in     *)
(* whole seconds.  Besides the programs' own variables the model carries   *)
(* history variables (marked "history") that record what one loop, watch,  *)
(* has just done, so that the properties are state predicates.  watch is   *)
(* any loop of the run, so what holds of it holds of every loop.           *)
(***************************************************************************)
EXTENDS Integers, Sequences, FiniteSets

\* ------------------------------------------------------------------ bounds
MaxThreads == 2        \* monitor threads the GUI may start in one run
MaxLatency == 2        \* measured latencies are 0..MaxLatency seconds
NumBodies == 2         \* number of distinct response bodies served

\* ------------------------------------------------------- program constants
target_timeout == 2     \* URL_monitor.py: target_timeout = 2.0
test_interval == 300    \* URL_monitor.py: test_interval = 300
PeriodDefault == 5      \* Monitor_Gui.__init__: self.period.set(5)
TimeoutDefault == 1     \* Monitor_Gui.__init__: self.timeout.set(1)

Main == 0
Threads == 1..MaxThreads
Loops == 0..MaxThreads

Min(a, b) == IF a < b THEN a ELSE b

Latencies == 0..MaxLatency

\* Response bodies and their SHA-1 hex digests (hashlib.sha1(b).hexdigest()).
BodyTable == <<"", "A", "B", "C">>
Bodies == {BodyTable[n] : n \in 1..NumBodies}
NoBody == "<none>"

sha1(b) ==
  CASE b = ""  -> "da39a3ee5e6b4b0d3255bfef95601890afd80709"
    [] b = "A" -> "6dcd4ce23d88e2ee9568ba546c007c63d9131c1b"
    [] b = "B" -> "ae4f281df5a5d0ff3cad6371f76d5c29b6d953ec"
    [] b = "C" -> "32096c2e0eff33d844ee6d675407ace18289357d"

\* Initial value of previous_Hash: "" in main(), None in monitor.run.
NoHash(l) == IF l = Main THEN "" ELSE "None"

\* HTTP status codes a response may carry.
Statuses == {200, 404, 500}

\* resp_URL.raise_for_status(): HTTPError for 4xx and 5xx.
raise_for_status(status) == 400 <= status /\ status < 600

\* Exceptions requests.get can raise, with their classes (requests.exceptions).
Exceptions ==
  {"ReadTimeout", "ConnectTimeout", "ConnectionError", "SSLError",
   "HTTPError", "TooManyRedirects", "InvalidURL"}

Bases(e) ==
  CASE e = "ReadTimeout"      -> {"ReadTimeout", "Timeout", "RequestException"}
    [] e = "ConnectTimeout"   -> {"ConnectTimeout", "ConnectionError", "Timeout",
                                  "RequestException"}
    [] e = "ConnectionError"  -> {"ConnectionError", "RequestException"}
    [] e = "SSLError"         -> {"SSLError", "ConnectionError", "RequestException"}
    [] e = "HTTPError"        -> {"HTTPError", "RequestException"}
    [] e = "TooManyRedirects" -> {"TooManyRedirects", "RequestException"}
    [] e = "InvalidURL"       -> {"InvalidURL", "RequestException"}

\* Faulty variant: the ConnectionError clause comes before the Timeout clause.
classifyConnectionFirst(e) ==
  IF "ConnectionError" \in Bases(e) THEN "ConnectionFailure"
  ELSE IF "Timeout" \in Bases(e) THEN "Timeout"
  ELSE IF "HTTPError" \in Bases(e) THEN "ProtocolError"
  ELSE "UnknownFailure"

\* The except clauses, in source order: the first matching clause handles e.
classify(e) ==
  IF "Timeout" \in Bases(e) THEN "Timeout"
  ELSE IF "ConnectionError" \in Bases(e) THEN "ConnectionFailure"
  ELSE IF "HTTPError" \in Bases(e) THEN "ProtocolError"
  ELSE "UnknownFailure"

\* Faulty variant: the Timeout clause ends with break.
HandlerBreaksOnTimeout(kind) ==
  IF kind = "ConnectionFailure" THEN "continue" ELSE "break"

\* Faulty variant: the HTTPError clause ends with continue.
HandlerContinuesOnHTTPError(kind) ==
  IF kind = "UnknownFailure" THEN "break" ELSE "continue"

\* What the matching except clause ends with.
Handler(kind) ==
  IF kind \in {"Timeout", "ConnectionFailure"} THEN "continue" ELSE "break"

\* short_msg of the error line.
ErrorMsg(kind) ==
  CASE kind = "Timeout"           -> "Timeout Error"
    [] kind = "ConnectionFailure" -> "Connection Error"
    [] kind = "ProtocolError"     -> "HTTP Error"
    [] kind = "UnknownFailure"    -> "Unknown Error"

\* message of the SMS that goes with the error line.
ErrorSms(kind) ==
  CASE kind = "Timeout"           -> "Timeout error"
    [] kind = "ConnectionFailure" -> "Connection Error"
    [] kind = "ProtocolError"     -> "HTTP Error"
    [] kind = "UnknownFailure"    -> "Unknown Error"

VARIABLES
  prog,             \* "cli" (URL_monitor.py) or "gui" (URL_monitor_gui.py)
  watch,            \* history: the loop whose history is recorded
  AWS_Valid,        \* global: SMS notification is configured
  keep_monitoring,  \* gui global flag
  bstate,           \* Monitor_Gui.bstate, the button label
  command,          \* the button's callback: "submit" or "clear"
  period,           \* Monitor_Gui.period (radio selection)
  gtimeout,         \* Monitor_Gui.timeout (radio selection)
  pressed,          \* history: the button callback that ran last, if any
  tbox,             \* Monitor_Gui.result_box: the threads whose text it shows
  pc,               \* pc[l]: where loop l is
  first_Pass,       \* main(): first_Pass
  last_char,        \* show_progress: last_char
  target_file,      \* main(): body last written to target_file
  previous_Hash,    \* previous_Hash[l]
  interval,         \* interval[l]: test_interval / self.interval
  timeout,          \* timeout[l]: target_timeout / self.timeout
  i,                \* i[l]: index of the thread's wait loop
  out,              \* history: lines and SMS sent by loop l's latest step
  outcome,          \* history: how the fetch ended, if the latest step was one
  raised,           \* history: the exception that fetch raised, if any
  latency,          \* history: the latency that fetch measured
  bodyBefore,       \* history: body of the successful fetch before that fetch
  prev,             \* history: how the fetch before that fetch had ended
  body,             \* history: body of the latest successful fetch
  last,             \* history: how the loop's latest fetch ended
  rested,           \* history: a full interval was slept since the last fetch
  banners,          \* history: "Begin monitoring URL" banners printed (0..2)
  slept,            \* history: seconds main() has slept since its latest fetch
  terminated,       \* history: "Abort" lines printed by the loop (0..2)
  why,              \* history: why the loop ended
  stopReq,          \* history: where the thread was when clear() last ran
  resumed,          \* history: the thread issued a fetch after stopReq
  ticks,            \* history: sleep ticks finished after a stop in the wait
  bystander         \* history: polling again when clear() ran for a later thread

vars == <<prog, watch, AWS_Valid, keep_monitoring, bstate, command, period, gtimeout, pressed,
          tbox, pc, first_Pass, last_char, target_file, previous_Hash, interval,
          timeout, i, out, outcome, raised, latency, bodyBefore, prev, body, last,
          rested, banners, slept, terminated, why, stopReq, resumed, ticks, bystander>>

guiVars == <<keep_monitoring, bstate, command, period, gtimeout, pressed>>
cliVars == <<first_Pass, last_char, target_file, banners, slept>>
stopVars == <<stopReq, resumed, ticks, bystander>>
stepVars == <<out, outcome, raised, latency, bodyBefore, prev>>
pollVars == <<previous_Hash, body, last>>
cfgVars == <<prog, watch, AWS_Valid, interval, timeout>>

\* ------------------------------------------------------------ the channels
Line(ch, msg) == [ch |-> ch, msg |-> msg]

\* URL_monitor.py send_console / URL_monitor_gui.py send_console: one line.
send_console(short_msg) == <<Line("console", short_msg)>>

\* monitor.output: one line in the text box.
output(short_msg) == <<Line("box", short_msg)>>

\* client.publish: delivered, or ClientError caught and reported.
publish(message, ok, report) ==
  IF ok THEN <<Line("sms", message)>>
  ELSE <<Line("sms_error", message)>> \o report

\* Faulty variant: the test of AWS_Valid is missing.
cli_send_sms_unguarded(message, ok) ==
  send_console("Sending SMS")
    \o publish(message, ok, send_console("Error: Unable to send SMS message via AWS"))

\* URL_monitor.py send_sms: nothing unless AWS_Valid.
cli_send_sms(message, ok) ==
  IF AWS_Valid
  THEN send_console("Sending SMS")
         \o publish(message, ok, send_console("Error: Unable to send SMS message via AWS"))
  ELSE <<>>

\* URL_monitor_gui.py: "if AWS_Valid: send_sms(Sns_client, message)".
gui_send_sms(message, ok) ==
  IF AWS_Valid
  THEN send_console("Sending SMS")
         \o publish(message, ok, send_console("Error:"))
  ELSE <<>>

\* The history variables follow one loop, watch: f with l's entry set to v
\* when l is that loop, f itself otherwise.
Hist(f, l, v) == IF l = watch THEN [f EXCEPT ![l] = v] ELSE f

\* ------------------------------------------------- one poll cycle's pieces
\* Faulty variant: the boundary excluded.
IsSlowStrict(lat, to) == lat > to

\* "if latency >= target_timeout" / "if latency >= self.timeout".
IsSlow(lat, to) == lat >= to

\* Faulty variant: the two branches of the inner test swapped.
HashCaseSwapped(current, previous, none) ==
  IF current # previous
  THEN IF previous = none THEN "changed" ELSE "baseline"
  ELSE "same"

\* The nested test on current_Hash and previous_Hash.
HashCase(current, previous, none) ==
  IF current # previous
  THEN IF previous = none THEN "baseline" ELSE "changed"
  ELSE "same"

\* Faulty variant: previous_Hash is never assigned.
NewPreviousKept(current, previous) == previous

\* Faulty variant: the assignment sits in the first-fingerprint branch only.
NewPreviousOnce(current, previous) ==
  IF previous \in {"", "None"} THEN current ELSE previous

\* "previous_Hash = current_Hash", inside "if current_Hash != previous_Hash".
NewPrevious(current, previous) ==
  IF current # previous THEN current ELSE previous

\* Faulty variant: the hash is compared before the latency is tested.
CliSuccessLinesHashFirst(l, b, lat, ok1, ok2) ==
  (CASE HashCase(sha1(b), previous_Hash[l], NoHash(l)) = "baseline" ->
          send_console("Hash set to")
     [] HashCase(sha1(b), previous_Hash[l], NoHash(l)) = "changed" ->
          send_console("Hash changed to")
            \o cli_send_sms("Web site contents changed", ok2)
     [] OTHER -> <<>>)
  \o
  (IF IsSlow(lat, timeout[l])
   THEN send_console("Slow response") \o cli_send_sms("Slow response", ok1)
   ELSE <<>>)

\* main(): the lines of one successful cycle.
CliSuccessLines(l, b, lat, ok1, ok2) ==
  (IF IsSlow(lat, timeout[l])
   THEN send_console("Slow response") \o cli_send_sms("Slow response", ok1)
   ELSE <<>>)
  \o
  (CASE HashCase(sha1(b), previous_Hash[l], NoHash(l)) = "baseline" ->
          send_console("Hash set to")
     [] HashCase(sha1(b), previous_Hash[l], NoHash(l)) = "changed" ->
          send_console("Hash changed to")
            \o cli_send_sms("Web site contents changed", ok2)
     [] OTHER -> <<>>)

\* monitor.run: the lines of one successful cycle.
GuiSuccessLines(l, b, lat, ok1, ok2) ==
  (IF IsSlow(lat, timeout[l])
   THEN output("Slow response") \o gui_send_sms("Slow response", ok1)
   ELSE <<>>)
  \o
  (CASE HashCase(sha1(b), previous_Hash[l], NoHash(l)) = "baseline" ->
          output("Hash")
     [] HashCase(sha1(b), previous_Hash[l], NoHash(l)) = "changed" ->
          output("Hash changed")
            \o gui_send_sms("Web Site Contents changed", ok2)
     [] OTHER -> <<>>)

\* Faulty variant: the SMS is sent before the error line is printed.
CliErrorLinesSmsFirst(kind, ok) ==
  cli_send_sms(ErrorSms(kind), ok) \o send_console(ErrorMsg(kind))

\* The lines of a failed cycle: the error line, then the SMS.
CliErrorLines(kind, ok) ==
  send_console(ErrorMsg(kind)) \o cli_send_sms(ErrorSms(kind), ok)

GuiErrorLines(kind, ok) ==
  output(ErrorMsg(kind)) \o gui_send_sms(ErrorSms(kind), ok)

\* A step of loop l that is no fetch and writes the lines evs.
Said(l, evs) ==
  /\ out' = Hist(out, l, evs)
  /\ outcome' = Hist(outcome, l, "none")
  /\ raised' = Hist(raised, l, "none")
  /\ latency' = Hist(latency, l, 0)
  /\ bodyBefore' = Hist(bodyBefore, l, NoBody)
  /\ prev' = Hist(prev, l, "none")

\* A step of loop l that is no fetch and writes nothing.
Quiet(l) == Said(l, <<>>)

\* State after a successful cycle of loop l (body b, latency lat, lines evs).
Succeed(l, b, lat, evs) ==
  /\ previous_Hash' =
       [previous_Hash EXCEPT ![l] = NewPrevious(sha1(b), previous_Hash[l])]
  /\ latency' = Hist(latency, l, lat)
  /\ outcome' = Hist(outcome, l, "Success")
  /\ bodyBefore' = Hist(bodyBefore, l, body[l])
  /\ body' = Hist(body, l, b)
  /\ last' = Hist(last, l, "Success")
  /\ prev' = Hist(prev, l, last[l])
  /\ out' = Hist(out, l, evs)
  /\ rested' = Hist(rested, l, FALSE)

\* Faulty variant: a failed cycle forgets the stored fingerprint.
FailForgetsHash(l, kind, evs) ==
  /\ outcome' = Hist(outcome, l, kind)
  /\ latency' = Hist(latency, l, 0)
  /\ bodyBefore' = Hist(bodyBefore, l, NoBody)
  /\ last' = Hist(last, l, kind)
  /\ prev' = Hist(prev, l, last[l])
  /\ out' = Hist(out, l, evs)
  /\ rested' = Hist(rested, l, FALSE)
  /\ previous_Hash' = [previous_Hash EXCEPT ![l] = NoHash(l)]
  /\ UNCHANGED body

\* State after a failed cycle of loop l: no latency, no fingerprint.
Fail(l, kind, evs) ==
  /\ outcome' = Hist(outcome, l, kind)
  /\ latency' = Hist(latency, l, 0)
  /\ bodyBefore' = Hist(bodyBefore, l, NoBody)
  /\ last' = Hist(last, l, kind)
  /\ prev' = Hist(prev, l, last[l])
  /\ out' = Hist(out, l, evs)
  /\ rested' = Hist(rested, l, FALSE)
  /\ UNCHANGED <<previous_Hash, body>>

\* self.tbox.insert(END, ...) by thread t, once for every box line of evs.
insert(t, evs) ==
  IF \E k \in DOMAIN evs : evs[k].ch = "box" THEN tbox \cup {t} ELSE tbox

\* ------------------------------------------------------------------- Init
Init ==
  /\ prog \in {"cli", "gui"}
  /\ watch \in (IF prog = "cli" THEN {Main} ELSE Threads)
  /\ AWS_Valid \in BOOLEAN
  /\ keep_monitoring = TRUE
  /\ pressed = "none"
  /\ bstate = "Start Monitoring"
  /\ command = "submit"
  /\ period = (IF prog = "gui" THEN PeriodDefault ELSE 0)
  /\ gtimeout = (IF prog = "gui" THEN TimeoutDefault ELSE 0)
  /\ tbox = {}
  /\ pc = [l \in Loops |-> IF l = Main
                           THEN (IF prog = "cli" THEN "top" ELSE "absent")
                           ELSE "unborn"]
  /\ first_Pass = TRUE
  /\ last_char = "x"
  /\ target_file = NoBody
  /\ previous_Hash = [l \in Loops |-> NoHash(l)]
  /\ interval = [l \in Loops |-> IF l = Main /\ prog = "cli" THEN test_interval ELSE 0]
  /\ timeout = [l \in Loops |-> IF l = Main /\ prog = "cli" THEN target_timeout ELSE 0]
  /\ i = [l \in Loops |-> 0]
  /\ out = [l \in Loops |-> <<>>]
  /\ outcome = [l \in Loops |-> "none"]
  /\ raised = [l \in Loops |-> "none"]
  /\ latency = [l \in Loops |-> 0]
  /\ bodyBefore = [l \in Loops |-> NoBody]
  /\ prev = [l \in Loops |-> "none"]
  /\ body = [l \in Loops |-> NoBody]
  /\ last = [l \in Loops |-> "none"]
  /\ rested = [l \in Loops |-> FALSE]
  /\ banners = 0
  /\ slept = 0
  /\ terminated = [l \in Loops |-> 0]
  /\ why = [l \in Loops |-> "running"]
  /\ stopReq = [l \in Loops |-> "no"]
  /\ resumed = [l \in Loops |-> FALSE]
  /\ ticks = [l \in Loops |-> 0]
  /\ bystander = [l \in Loops |-> FALSE]

\* ------------------------------------------------- URL_monitor.py: main()
\* show_progress('+', '|')
show_progress(char_a, char_b) == IF last_char = char_a THEN char_b ELSE char_a

\* main(): the lines of the first pass.
BannerLines ==
  send_console("Begin monitoring URL")
    \o (IF AWS_Valid
        THEN send_console("AWS SNS Notification is active for")
        ELSE send_console("AWS SNS messaging not configured for"))

\* Loop top: the banner on the first pass, otherwise progress mark and sleep.
CliTop ==
  /\ prog = "cli" /\ pc[Main] = "top"
  /\ IF first_Pass
     THEN /\ first_Pass' = FALSE
          /\ banners' = Min(banners + 1, 2)
          /\ Said(Main, BannerLines)
          /\ pc' = [pc EXCEPT ![Main] = "fetch"]
          /\ UNCHANGED last_char
     ELSE /\ last_char' = show_progress("+", "|")
          /\ Quiet(Main)
          /\ pc' = [pc EXCEPT ![Main] = "sleep"]
          /\ UNCHANGED <<first_Pass, banners>>
  /\ UNCHANGED <<tbox, guiVars, cfgVars, pollVars, stopVars, target_file, slept, i, rested,
                 terminated, why>>

\* time.sleep(test_interval) returns.
CliSleep ==
  /\ prog = "cli" /\ pc[Main] = "sleep"
  /\ rested' = Hist(rested, Main, TRUE)
  /\ slept' = Min(slept + interval[Main], 2 * test_interval)
  /\ pc' = [pc EXCEPT ![Main] = "fetch"]
  /\ Quiet(Main)
  /\ UNCHANGED <<tbox, guiVars, cfgVars, first_Pass, last_char, target_file, banners,
                 pollVars, stopVars, i, terminated, why>>

\* Faulty variant: continue resumes at the request, past the sleep.
CliAfterSkipsSleep(kind) ==
  IF Handler(kind) = "continue" THEN "fetch" ELSE "abort"

\* Where main() goes from an except clause: continue re-enters "while True"
\* at its top, break leaves for the statements after the loop.
CliAfter(kind) ==
  IF Handler(kind) = "continue" THEN "top" ELSE "abort"

\* requests.get raised e: the matching except clause.
CliFetchRaise(kind, ok) ==
  /\ Fail(Main, kind, CliErrorLines(kind, ok))
  /\ pc' = [pc EXCEPT ![Main] = CliAfter(kind)]
  /\ why' = Hist(why, Main, IF Handler(kind) = "continue" THEN "running" ELSE "break")
  /\ UNCHANGED target_file

\* requests.get returned and raise_for_status passed: latency, hash, file.
CliFetchOk(b, lat, ok1, ok2) ==
  /\ Succeed(Main, b, lat, CliSuccessLines(Main, b, lat, ok1, ok2))
  /\ target_file' = b
  /\ pc' = [pc EXCEPT ![Main] = "top"]
  /\ UNCHANGED why

CliFetch ==
  /\ prog = "cli" /\ pc[Main] = "fetch"
  /\ \/ \E e \in Exceptions \ {"HTTPError"}, ok \in BOOLEAN :
          CliFetchRaise(classify(e), ok) /\ raised' = Hist(raised, Main, e)
     \/ \E st \in Statuses, b \in Bodies, lat \in Latencies, ok1, ok2 \in BOOLEAN :
          IF raise_for_status(st)
          THEN CliFetchRaise(classify("HTTPError"), ok1)
                 /\ raised' = Hist(raised, Main, "HTTPError")
          ELSE CliFetchOk(b, lat, ok1, ok2) /\ raised' = Hist(raised, Main, "none")
  /\ slept' = 0
  /\ UNCHANGED <<tbox, guiVars, cfgVars, first_Pass, last_char, banners, stopVars, i,
                 terminated>>

\* After the loop: send_console(..., "Abort").
CliAbort ==
  /\ prog = "cli" /\ pc[Main] = "abort"
  /\ Said(Main, send_console("Abort"))
  /\ terminated' = Hist(terminated, Main, Min(terminated[Main] + 1, 2))
  /\ pc' = [pc EXCEPT ![Main] = "abort_sms"]
  /\ UNCHANGED <<tbox, guiVars, cfgVars, cliVars, pollVars, stopVars, i, rested, why>>

\* send_sms(client, "Monitoring terminated ..."); sys.exit(1).
CliAbortSms ==
  /\ prog = "cli" /\ pc[Main] = "abort_sms"
  /\ \E ok \in BOOLEAN :
       Said(Main, cli_send_sms("Monitoring terminated due to unexpected problem", ok))
  /\ pc' = [pc EXCEPT ![Main] = "exit1"]
  /\ UNCHANGED <<tbox, guiVars, cfgVars, cliVars, pollVars, stopVars, i, rested,
                 terminated, why>>

\* signal_handler: SIGINT at any point of the run; sys.exit(0).
signal_handler ==
  /\ prog = "cli" /\ pc[Main] \notin {"exit0", "exit1"}
  /\ pc' = [pc EXCEPT ![Main] = "exit0"]
  /\ why' = Hist(why, Main, "sigint")
  /\ Quiet(Main)
  /\ UNCHANGED <<tbox, guiVars, cfgVars, cliVars, pollVars, stopVars, i, rested, terminated>>

\* ------------------------------------------- URL_monitor_gui.py: the GUI
\* Faulty variant: the label flips, the button's callback is not rebound.
toggle_button_label_only ==
  /\ bstate' = (IF bstate = "Start Monitoring" THEN "Stop Monitoring" ELSE "Start Monitoring")
  /\ command' = command

\* toggle_button: label and callback flip together.
toggle_button ==
  IF bstate = "Start Monitoring"
  THEN /\ bstate' = "Stop Monitoring"
       /\ command' = "clear"
  ELSE /\ bstate' = "Start Monitoring"
       /\ command' = "submit"

\* monitor.__init__: the lines written before self.start().
WatchingLines ==
  output("Watching")
    \o (IF AWS_Valid THEN output("AWS SNS Notification is active for") ELSE <<>>)

\* monitor.__init__(tbox, url, interval, timeout) for thread t: the arguments
\* are stored as given, the lines written, and self.start() runs run(), which
\* begins with previous_Hash = None.
monitor_init(t, iv, to) ==
  /\ interval' = [interval EXCEPT ![t] = iv]
  /\ timeout' = [timeout EXCEPT ![t] = to]
  /\ Said(t, WatchingLines)
  /\ tbox' = insert(t, WatchingLines)
  /\ previous_Hash' = [previous_Hash EXCEPT ![t] = NoHash(t)]
  /\ pc' = [pc EXCEPT ![t] = "loop"]

\* Monitor_Gui.submit: set the flag, construct and start a monitor thread,
\* toggle the button.
submit ==
  /\ prog = "gui" /\ command = "submit"
  /\ \E t \in Threads :
       /\ pc[t] = "unborn"
       /\ \A u \in Threads : u < t => pc[u] # "unborn"
       /\ keep_monitoring' = TRUE
       /\ monitor_init(t, period, gtimeout)
  /\ toggle_button
  /\ pressed' = "submit"
  /\ UNCHANGED <<prog, watch, AWS_Valid, period, gtimeout, cliVars, i, body, last, rested,
                 terminated, why, stopVars>>

\* Values a caller may pass to monitor() as interval and as timeout.
ArgValues == {-1, 0, 1, 2}

\* monitor(tbox, url, interval, timeout) constructed by a caller other than
\* submit(), with any arguments.
construct ==
  /\ prog = "gui" /\ pc[1] = "unborn"
  /\ \E iv \in ArgValues, to \in ArgValues : monitor_init(1, iv, to)
  /\ UNCHANGED <<prog, watch, AWS_Valid, guiVars, cliVars, i, body, last, rested,
                 terminated, why, stopVars>>

\* A thread that is in its polling loop.
Live(l) == pc[l] \in {"loop", "fetch", "wait", "sleep", "after"}

\* The thread the latest submit() started: the one the Stop button is for.
Latest == CHOOSE t \in Threads : pc[t] # "unborn" /\ \A u \in Threads : u > t => pc[u] = "unborn"

\* Monitor_Gui.clear: reset the flag, toggle the button, empty the box.
clear ==
  /\ prog = "gui" /\ command = "clear"
  /\ keep_monitoring' = FALSE
  /\ toggle_button
  /\ pressed' = "clear"
  /\ tbox' = {}
  /\ IF Live(watch)
     THEN /\ stopReq' = [stopReq EXCEPT ![watch] =
                           IF pc[watch] \in {"wait", "sleep"} THEN "wait" ELSE "other"]
          /\ resumed' = [resumed EXCEPT ![watch] = FALSE]
          /\ ticks' = [ticks EXCEPT ![watch] = 0]
          /\ bystander' = [bystander EXCEPT ![watch] = (watch # Latest /\ resumed[watch])]
     ELSE UNCHANGED stopVars
  /\ UNCHANGED <<cfgVars, period, gtimeout, cliVars, pollVars, stepVars, pc, i,
                 rested, terminated, why>>

\* ---------------------------------------- URL_monitor_gui.py: monitor.run
\* "while keep_monitoring:" then start = timer() and the request is issued.
ThreadLoop(t) ==
  /\ prog = "gui" /\ pc[t] = "loop"
  /\ IF keep_monitoring
     THEN /\ pc' = [pc EXCEPT ![t] = "fetch"]
          /\ resumed' = Hist(resumed, t, (stopReq[t] # "no"))
          /\ UNCHANGED why
     ELSE /\ pc' = [pc EXCEPT ![t] = "done"]
          /\ why' = Hist(why, t, "flag")
          /\ UNCHANGED resumed
  /\ Quiet(t)
  /\ UNCHANGED <<tbox, guiVars, cfgVars, cliVars, pollVars, stopReq, ticks, bystander, i,
                 rested, terminated>>

\* requests.get or raise_for_status raised: the matching except clause.
ThreadFetchRaise(t, kind, ok) ==
  /\ Fail(t, kind, GuiErrorLines(kind, ok))
  /\ tbox' = insert(t, GuiErrorLines(kind, ok))
  /\ pc' = [pc EXCEPT ![t] = IF Handler(kind) = "continue" THEN "loop" ELSE "done"]
  /\ why' = Hist(why, t, IF Handler(kind) = "continue" THEN "running" ELSE "break")
  /\ UNCHANGED i

\* The response arrived: latency, hash, then the wait loop is entered.
ThreadFetchOk(t, b, lat, ok1, ok2) ==
  /\ Succeed(t, b, lat, GuiSuccessLines(t, b, lat, ok1, ok2))
  /\ tbox' = insert(t, GuiSuccessLines(t, b, lat, ok1, ok2))
  /\ pc' = [pc EXCEPT ![t] = "wait"]
  /\ i' = [i EXCEPT ![t] = 0]
  /\ UNCHANGED why

\* requests.get(self.url, timeout=self.timeout) with a timeout that is not
\* positive raises ValueError, which no except clause of run() matches: the
\* thread ends.
ThreadFetchDies(t) ==
  /\ Fail(t, "ValueError", <<>>)
  /\ pc' = [pc EXCEPT ![t] = "done"]
  /\ why' = Hist(why, t, "ValueError")
  /\ UNCHANGED <<tbox, i>>

ThreadFetch(t) ==
  /\ prog = "gui" /\ pc[t] = "fetch"
  /\ IF timeout[t] <= 0
     THEN ThreadFetchDies(t) /\ raised' = Hist(raised, t, "ValueError")
     ELSE \/ \E e \in Exceptions \ {"HTTPError"}, ok \in BOOLEAN :
               ThreadFetchRaise(t, classify(e), ok) /\ raised' = Hist(raised, t, e)
          \/ \E st \in Statuses, b \in Bodies, lat \in Latencies, ok1, ok2 \in BOOLEAN :
               IF raise_for_status(st)
               THEN ThreadFetchRaise(t, classify("HTTPError"), ok1)
                      /\ raised' = Hist(raised, t, "HTTPError")
               ELSE ThreadFetchOk(t, b, lat, ok1, ok2) /\ raised' = Hist(raised, t, "none")
  /\ UNCHANGED <<guiVars, cfgVars, cliVars, stopVars, terminated>>

\* "for i in range(self.interval): if keep_monitoring == True: ... else: break"
\* with the '.' written before each time.sleep(1).
ThreadWait(t) ==
  /\ prog = "gui" /\ pc[t] = "wait"
  /\ IF i[t] < interval[t] /\ keep_monitoring
     THEN /\ pc' = [pc EXCEPT ![t] = "sleep"]
          /\ tbox' = insert(t, output("."))
          /\ UNCHANGED i
     ELSE /\ pc' = [pc EXCEPT ![t] = "after"]
          /\ i' = [i EXCEPT ![t] = 0]
          /\ UNCHANGED tbox
  /\ Quiet(t)
  /\ UNCHANGED <<guiVars, cfgVars, cliVars, pollVars, stopVars, rested, terminated, why>>

\* time.sleep(1) returns.
ThreadSleep(t) ==
  /\ prog = "gui" /\ pc[t] = "sleep"
  /\ i' = [i EXCEPT ![t] = i[t] + 1]
  /\ rested' = Hist(rested, t, (i[t] + 1 = interval[t]))
  /\ ticks' = Hist(ticks, t, IF stopReq[t] = "wait" THEN Min(ticks[t] + 1, 2) ELSE 0)
  /\ pc' = [pc EXCEPT ![t] = "wait"]
  /\ Quiet(t)
  /\ UNCHANGED <<tbox, guiVars, cfgVars, cliVars, pollVars, stopReq, resumed, bystander,
                 terminated, why>>

\* "if keep_monitoring == True: self.tbox.insert(END, '|')", back to the top.
ThreadAfter(t) ==
  /\ prog = "gui" /\ pc[t] = "after"
  /\ tbox' = (IF keep_monitoring THEN insert(t, output("|")) ELSE tbox)
  /\ pc' = [pc EXCEPT ![t] = "loop"]
  /\ Quiet(t)
  /\ UNCHANGED <<guiVars, cfgVars, cliVars, pollVars, stopVars, i, rested, terminated, why>>

Next ==
  \/ CliTop
  \/ CliSleep
  \/ CliFetch
  \/ CliAbort
  \/ CliAbortSms
  \/ signal_handler
  \/ submit
  \/ clear
  \/ \E t \in Threads : ThreadLoop(t)
  \/ \E t \in Threads : ThreadFetch(t)
  \/ \E t \in Threads : ThreadWait(t)
  \/ \E t \in Threads : ThreadSleep(t)
  \/ \E t \in Threads : ThreadAfter(t)

Spec == Init /\ [][Next]_vars

\* One loop per run: main(), or the GUI with Start pressed once (thread 1),
\* and Stop after it.  The properties of a single loop are settled here; the
\* threads of Spec differ from this one only by what they read in
\* keep_monitoring.
submitOnce == pc[1] = "unborn" /\ submit

NextOne ==
  \/ CliTop
  \/ CliSleep
  \/ CliFetch
  \/ CliAbort
  \/ CliAbortSms
  \/ signal_handler
  \/ submitOnce
  \/ clear
  \/ ThreadLoop(1)
  \/ ThreadFetch(1)
  \/ ThreadWait(1)
  \/ ThreadSleep(1)
  \/ ThreadAfter(1)

SpecOne == Init /\ [][NextOne]_vars

\* One monitor thread constructed directly, with any interval and timeout.
NextStart ==
  \/ construct
  \/ ThreadLoop(1)
  \/ ThreadFetch(1)
  \/ ThreadWait(1)
  \/ ThreadSleep(1)
  \/ ThreadAfter(1)

SpecStart == Init /\ [][NextStart]_vars

\* ------------------------------------------------------------ properties
Recoverable == {"Timeout", "ConnectionFailure"}
Fatal == {"ProtocolError", "UnknownFailure"}

\* Loop l is inside its polling loop / has ended.
Looping(l) == pc[l] \in {"top", "sleep", "fetch", "loop", "wait", "after"}
Stopped(l) == pc[l] \in {"done", "exit0", "exit1"}

\* Loop l's latest step wrote the line m to the console or the text box.
HasLine(l, m) ==
  \E k \in DOMAIN out[l] : out[l][k].ch \in {"console", "box"} /\ out[l][k].msg = m

BaselineMsg(l) == IF l = Main THEN "Hash set to" ELSE "Hash"
ChangedMsg(l) == IF l = Main THEN "Hash changed to" ELSE "Hash changed"

\* C1: a fetch that ends in HTTPError or in another RequestException ends the
\* loop in that same cycle: right after it the loop is outside its polling
\* loop, and a loop that has left by break never polls again.
C1_FatalEndsLoop ==
  \A l \in Loops :
    /\ outcome[l] \in Fatal => ~Looping(l) /\ why[l] = "break"
    /\ why[l] = "break" => ~Looping(l) /\ last[l] \in Fatal

C1_Witness ==
  \E t \in Threads :
    outcome[t] = "ProtocolError" /\ pc[t] = "done" /\ keep_monitoring

\* C2: a loop that has stopped on a ProtocolError or UnknownFailure has
\* emitted exactly one "monitoring terminated" event (the Abort line) on its
\* way from the error to Stopped, in main() and in monitor.run alike.
C2_OneTerminationEvent ==
  \A l \in Loops :
    why[l] = "break" /\ pc[l] \in {"done", "exit1"} => terminated[l] = 1

\* C3: after a Timeout or ConnectionError outcome the loop has written the
\* error line and is back at the top of its loop; a loop whose latest fetch
\* ended that way is stopped only by cancellation (flag False seen after a
\* clear(), SIGINT in main()), however many such failures came in a row.
C3_RecoverableNeverStops ==
  \A l \in Loops :
    /\ outcome[l] \in Recoverable =>
         HasLine(l, ErrorMsg(outcome[l])) /\ pc[l] \in {"top", "loop"}
    /\ last[l] \in Recoverable =>
         /\ pc[l] \notin {"abort", "abort_sms"}
         /\ Stopped(l) =>
              \/ l = Main /\ pc[l] = "exit0" /\ why[l] = "sigint"
              \/ l # Main /\ why[l] = "flag" /\ stopReq[l] # "no"

C3_Witness ==
  \E l \in Loops :
    outcome[l] = "Timeout" /\ prev[l] \in Recoverable /\ Looping(l)

\* C4: a fetch that follows an earlier fetch of the same loop is issued only
\* after a full poll interval has been slept since that earlier fetch ended.
C4_SleepBetweenFetches ==
  \A l \in Loops : pc[l] = "fetch" /\ last[l] # "none" => rested[l]

\* C5: the first successful poll of a loop writes the baseline line and not
\* the content-changed line, whatever the body and whatever failed before.
C5_FirstSuccessIsBaseline ==
  \A l \in Loops :
    outcome[l] = "Success" /\ bodyBefore[l] = NoBody =>
      HasLine(l, BaselineMsg(l)) /\ ~HasLine(l, ChangedMsg(l))

C5_Witness ==
  /\ outcome[Main] = "Success" /\ bodyBefore[Main] = NoBody
  /\ body[Main] = "" /\ prev[Main] \in Recoverable
  /\ HasLine(Main, "Hash set to")

\* C6: on a successful poll after the first successful one the content-changed
\* line is written exactly when the body's fingerprint differs from that of
\* the latest earlier successful poll, and the baseline line is not written
\* again; failed polls in between do not matter.
C6_ChangedIffFingerprintDiffers ==
  \A l \in Loops :
    outcome[l] = "Success" /\ bodyBefore[l] # NoBody =>
      /\ HasLine(l, ChangedMsg(l)) <=> sha1(body[l]) # sha1(bodyBefore[l])
      /\ ~HasLine(l, BaselineMsg(l))

C6_Witness ==
  \E t \in Threads :
    /\ outcome[t] = "Success" /\ bodyBefore[t] # NoBody /\ body[t] # bodyBefore[t]
    /\ prev[t] \in Recoverable
    /\ HasLine(t, "Hash changed")

\* C7: a successful fetch writes the slow-response line exactly when the
\* latency is at least the timeout; in that same cycle the body is
\* fingerprinted and the loop goes on.
C7_SlowIffLatencyAtLeastTimeout ==
  \A l \in Loops :
    outcome[l] = "Success" =>
      /\ HasLine(l, "Slow response") <=> latency[l] >= timeout[l]
      /\ previous_Hash[l] = sha1(body[l])
      /\ pc[l] \in {"top", "wait"} /\ why[l] = "running"

C7_Witness ==
  \E l \in Loops :
    /\ outcome[l] = "Success" /\ latency[l] = timeout[l]
    /\ HasLine(l, "Slow response") /\ HasLine(l, BaselineMsg(l))

\* C8: a thread that was in its inter-poll wait when clear() ran issues no
\* further fetch and emits no error or termination event.
C8_StopInWaitEndsLoop ==
  \A t \in Threads :
    stopReq[t] = "wait" =>
      ~resumed[t] /\ outcome[t] \notin (Recoverable \cup Fatal) /\ terminated[t] = 0

\* C9: a thread that was running when clear() ran issues no fetch after its
\* next test of the flag, also when submit() runs again; so it never polls
\* beside the thread a later submit() starts.
C9_StoppedThreadNeverResumes ==
  \A t \in Threads :
    stopReq[t] # "no" =>
      /\ ~resumed[t]
      /\ pc[t] = "fetch" => \A u \in Threads \ {t} : pc[u] \notin {"fetch", "wait", "sleep"}

\* C10: a thread that was in its inter-poll wait when clear() ran finishes
\* at most one more 1-second sleep tick.
C10_OneMoreTickAtMost ==
  \A t \in Threads : stopReq[t] = "wait" => ticks[t] <= 1

\* C11: a stop request for one monitor thread does not make another monitor
\* thread that is polling beside it leave its loop: a thread that was polling
\* again when clear() ran for a later thread never ends by the flag.
C11_StopLeavesOtherThreadsRunning ==
  \A t \in Threads : bystander[t] => ~(pc[t] = "done" /\ why[t] = "flag")

\* The lines of evs, on the console or in the text box, whose text is in msgs.
AlertLines(evs, msgs) ==
  {k \in DOMAIN evs : evs[k].ch \in {"console", "box"} /\ evs[k].msg \in msgs}

Failures == Recoverable \cup Fatal
ErrorMsgs == {ErrorMsg(kind) : kind \in Failures}
HashMsgs(l) == {BaselineMsg(l), ChangedMsg(l)}

\* C12: a fetch that fails (Timeout, ConnectionFailure, ProtocolError or
\* UnknownFailure) writes exactly one error line, the one of its kind, writes
\* no slow-response, baseline or content-changed line, and leaves
\* previous_Hash as it was.
C12_FailedFetchOnlyReportsError ==
  [][\A l \in Loops :
       pc[l] = "fetch" /\ outcome'[l] \in Failures =>
         /\ previous_Hash'[l] = previous_Hash[l]
         /\ Cardinality(AlertLines(out'[l], ErrorMsgs)) = 1
         /\ AlertLines(out'[l], {ErrorMsg(outcome'[l])}) # {}
         /\ AlertLines(out'[l], {"Slow response"} \cup HashMsgs(l)) = {}]_vars

C12_Witness ==
  \E l \in Loops :
    /\ outcome[l] \in Failures /\ body[l] # NoBody
    /\ previous_Hash[l] = sha1(body[l])
    /\ Cardinality(AlertLines(out[l], ErrorMsgs)) = 1

\* The console or text-box line of the alert whose SMS text is m.
AlertOf(m) ==
  CASE m = "Timeout error"             -> {"Timeout Error"}
    [] m = "Connection Error"          -> {"Connection Error"}
    [] m = "HTTP Error"                -> {"HTTP Error"}
    [] m = "Unknown Error"             -> {"Unknown Error"}
    [] m = "Slow response"             -> {"Slow response"}
    [] m = "Web site contents changed" -> {"Hash changed to"}
    [] m = "Web Site Contents changed" -> {"Hash changed"}
    [] OTHER                           -> {}

\* What the loop does after a fetch with the given outcome.
Decided(l) ==
  CASE outcome[l] \in Recoverable ->
         pc[l] = (IF l = Main THEN "top" ELSE "loop") /\ why[l] = "running"
    [] outcome[l] \in Fatal ->
         pc[l] = (IF l = Main THEN "abort" ELSE "done") /\ why[l] = "break"
    [] outcome[l] = "Success" ->
         /\ pc[l] = (IF l = Main THEN "top" ELSE "wait") /\ why[l] = "running"
         /\ previous_Hash[l] = sha1(body[l])
    [] OTHER -> TRUE

\* The sends of loop l's latest step that client.publish refused (ClientError).
FailedSends(l) == {k \in DOMAIN out[l] : out[l][k].ch = "sms_error"}

Shown(l, m) ==
  \E k \in DOMAIN out[l] :
    out[l][k].ch = (IF l = Main THEN "console" ELSE "box") /\ out[l][k].msg = m

\* The SMS sends, delivered or refused, of loop l's latest step.
Sends(l) == {k \in DOMAIN out[l] : out[l][k].ch \in {"sms", "sms_error"}}

\* C14: every alert of a cycle (the error of its kind, slow response,
\* baseline, content changed) is written to the loop's console or text box;
\* an SMS is sent only when AWS_Valid, and an alert's SMS only after the
\* alert's line has been written.
C14_AlertsAlwaysShown ==
  \A l \in Loops :
    /\ outcome[l] \in Failures => Shown(l, ErrorMsg(outcome[l]))
    /\ outcome[l] = "Success" =>
         /\ latency[l] >= timeout[l] => Shown(l, "Slow response")
         /\ bodyBefore[l] = NoBody => Shown(l, BaselineMsg(l))
         /\ bodyBefore[l] \notin {NoBody, body[l]} => Shown(l, ChangedMsg(l))
    /\ \A k \in Sends(l) :
         /\ AWS_Valid
         /\ outcome[l] # "none" =>
              \E j \in DOMAIN out[l] : j < k /\ Shown(l, out[l][j].msg)
                                            /\ out[l][j].msg \in AlertOf(out[l][k].msg)

C14_Witness ==
  \E t \in Threads :
    /\ AWS_Valid /\ outcome[t] = "Success"
    /\ Shown(t, "Slow response") /\ Shown(t, "Hash changed")
    /\ Cardinality(Sends(t)) = 2

\* C15: a monitor whose interval or timeout is not positive is rejected when
\* it is started: no thread runs, and so no fetch is issued, with such a
\* configuration.
C15_NonPositiveConfigRejected ==
  \A t \in Threads : pc[t] # "unborn" => interval[t] > 0 /\ timeout[t] > 0

\* C16: every requests exception a fetch raises is handled by exactly one of
\* the four clauses: a timeout, also one that is a connection error as well,
\* counts as Timeout; another connection error as ConnectionFailure; HTTPError
\* as ProtocolError; every other RequestException as UnknownFailure.
C16_ClassificationTotal ==
  \A l \in Loops :
    raised[l] \in Exceptions =>
      /\ outcome[l] \in Failures
      /\ Cardinality(AlertLines(out[l], ErrorMsgs)) = 1
      /\ outcome[l] = "Timeout" <=> "Timeout" \in Bases(raised[l])
      /\ outcome[l] = "ConnectionFailure" <=>
           "ConnectionError" \in Bases(raised[l]) /\ "Timeout" \notin Bases(raised[l])
      /\ outcome[l] = "ProtocolError" <=> raised[l] = "HTTPError"
      /\ outcome[l] = "UnknownFailure" <=>
           Bases(raised[l]) \cap {"Timeout", "ConnectionError", "HTTPError"} = {}

C16_Witness ==
  \E l \in Loops :
    /\ raised[l] = "ConnectTimeout" /\ outcome[l] = "Timeout"
    /\ AlertLines(out[l], {"Timeout Error"}) # {}

\* C17: a successful poll leaves previous_Hash equal to the fingerprint of the
\* body it fetched, and what the cycle reports (baseline, changed, nothing) is
\* the comparison with the value stored before; no other step of the loop
\* changes previous_Hash.
C17_PreviousHashFollowsSuccess ==
  [][\A l \in Loops :
       IF pc[l] = "fetch" /\ outcome'[l] = "Success"
       THEN /\ previous_Hash'[l] = sha1(body'[l])
            /\ AlertLines(out'[l], HashMsgs(l)) # {} <=>
                 previous_Hash[l] # sha1(body'[l])
            /\ AlertLines(out'[l], {ChangedMsg(l)}) # {} <=>
                 previous_Hash[l] \notin {NoHash(l), sha1(body'[l])}
       ELSE l = watch => previous_Hash'[l] = previous_Hash[l]]_vars

C17_Witness ==
  \E l \in Loops :
    /\ outcome[l] = "Success" /\ prev[l] = "Success"
    /\ bodyBefore[l] \notin {NoBody, body[l]}
    /\ previous_Hash[l] = sha1(body[l])

\* Everything loop l's latest step sent, on any channel, about a slow response.
SlowEvents(l) == {k \in DOMAIN out[l] : out[l][k].msg = "Slow response"}

\* The lines a poll cycle can write.
CycleMsgs(l) == ErrorMsgs \cup {"Slow response"} \cup HashMsgs(l)

\* C18: in one cycle the slow-response line and its SMS come before the
\* baseline or content-changed line, each at most once; and a loop that is
\* about to fetch has no line of the cycle before still to write: its latest
\* step was not the one that wrote them.
C18_SlowThenHashThenNextFetch ==
  \A l \in Loops :
    /\ \A j \in SlowEvents(l) : \A k \in AlertLines(out[l], HashMsgs(l)) : j < k
    /\ Cardinality(AlertLines(out[l], {"Slow response"})) <= 1
    /\ Cardinality(AlertLines(out[l], HashMsgs(l))) <= 1
    /\ pc[l] = "fetch" => AlertLines(out[l], CycleMsgs(l)) = {}

C18_Witness ==
  /\ AWS_Valid /\ outcome[Main] = "Success"
  /\ Cardinality(SlowEvents(Main)) = 2
  /\ AlertLines(out[Main], {"Hash changed to"}) # {}

\* The termination SMS of main(), delivered or refused, in its latest step.
TerminationSends ==
  {k \in Sends(Main) : out[Main][k].msg = "Monitoring terminated due to unexpected problem"}

\* C19: main() ends in one of two distinguishable ways.  After a fatal fetch
\* error it prints Abort, attempts the termination SMS and exits with status
\* 1, unless a SIGINT ends it first; a SIGINT, whenever it arrives, gives exit
\* status 0 with no Abort line and no termination SMS.
C19_ExitsDistinguishable ==
  /\ last[Main] \in Fatal => pc[Main] \in {"abort", "abort_sms", "exit1", "exit0"}
  /\ pc[Main] = "exit1" =>
       /\ last[Main] \in Fatal /\ terminated[Main] = 1
       /\ AWS_Valid => TerminationSends # {}
  /\ pc[Main] = "exit0" =>
       why[Main] = "sigint" /\ terminated[Main] = 0 /\ TerminationSends = {}

\* C20: main() prints the "Begin monitoring URL" banner once, before its
\* first fetch, which no sleep precedes; every later fetch comes after exactly
\* one sleep of test_interval, whether the fetch before it succeeded, timed
\* out or had a connection error, and the banner is not printed again.
C20_BannerOnceSleepBeforeLaterFetches ==
  /\ banners <= 1
  /\ pc[Main] = "fetch" =>
       /\ banners = 1
       /\ slept = (IF last[Main] = "none" THEN 0 ELSE test_interval)
       /\ last[Main] \in {"none", "Success"} \cup Recoverable
  /\ pc[Main] \in {"top", "sleep"} /\ ~first_Pass => banners = 1 /\ slept = 0

C20_Witness ==
  /\ pc[Main] = "fetch" /\ last[Main] = "Timeout"
  /\ slept = test_interval /\ banners = 1 /\ last_char = "|"

\* C21: the button reads "Stop Monitoring" only while some monitor thread is
\* in its polling loop; once a thread has ended on an HTTP or unknown error
\* and none is polling, the button reads "Start Monitoring" again.
C21_StopLabelMeansThreadAlive ==
  /\ bstate = "Stop Monitoring" => \E t \in Threads : Live(t)
  /\ \A t \in Threads :
       pc[t] = "done" /\ why[t] = "break" /\ (\A u \in Threads : ~Live(u)) =>
         bstate = "Start Monitoring"

\* C22: once clear() has emptied the result box, a thread that was running
\* when it did writes nothing more to the box, also when its fetch was in
\* flight at that moment and completes afterwards.
C22_NoBoxWritesAfterClear ==
  \A t \in Threads : stopReq[t] # "no" => t \notin tbox

\* C23: after a button callback has run, keep_monitoring is True exactly when
\* the label is "Stop Monitoring" and exactly when the button's command is
\* clear, which is the case after submit; after clear it is False, the label
\* "Start Monitoring" and the command submit.  The next press therefore runs
\* the other callback: presses alternate.
C23_ButtonMatchesFlag ==
  pressed # "none" =>
    /\ keep_monitoring <=> bstate = "Stop Monitoring"
    /\ keep_monitoring <=> command = "clear"
    /\ ~keep_monitoring <=> bstate = "Start Monitoring"
    /\ ~keep_monitoring <=> command = "submit"
    /\ keep_monitoring <=> pressed = "submit"
    /\ command # pressed

C23_Witness ==
  /\ pressed = "clear" /\ ~keep_monitoring
  /\ bstate = "Start Monitoring" /\ command = "submit"
  /\ \E t \in Threads : Live(t)

====
